---- MODULE Spec2Model ----
(***************************************************************************)
(* Tool invocation and learned-selector store of the browser MCP server:   *)
(* the five tools of the enhanced-tools module (part_000) and the          *)
(* selectors://learned resource (src/resources/selectors.ts).              *)
(*                                                                         *)
(* A tool handler is an async function: it runs synchronously from its     *)
(* call to its first await, and from one await to the next.  Each such     *)
(* synchronous stretch is one action.  The only awaits are remote calls    *)
(* (context.sendSocketMessage, captureAriaSnapshot).                       *)
(***************************************************************************)
EXTENDS Bags, FiniteSets, Integers, Sequences, TLC

\* Bounds of the model.
MaxInFlight == 2      \* invocations suspended on a remote call at the same time
MaxClock == 1         \* the clock read by new Date() runs over 0..MaxClock (ms)
MaxTextLen == 52      \* element texts have 0..MaxTextLen characters
MaxElements == 3      \* a page reports up to MaxElements elements

(***************************************************************************)
(* JavaScript values that cross the tool boundary.  A value is a record    *)
(* of its typeof and its printed form, so that values of different types   *)
(* can be told apart.                                                      *)
(***************************************************************************)
Undef == [type |-> "undefined", val |-> ""]
Null == [type |-> "null", val |-> ""]
Str(s) == [type |-> "string", val |-> s]
Num(s) == [type |-> "number", val |-> s]
Bool(b) == [type |-> "boolean", val |-> IF b THEN "true" ELSE "false"]

\* JavaScript truthiness, for the values above: if (v) and v ? a : b.
Truthy(v) ==
  CASE v.type = "undefined" -> FALSE
    [] v.type = "null" -> FALSE
    [] v.type = "string" -> v.val # ""
    [] v.type = "number" -> v.val # "0"
    [] v.type = "boolean" -> v.val = "true"
    [] OTHER -> TRUE

\* No default applied: the value is passed on as it is.
CoalesceKeeps(v, d) == v

\* v ?? d
Coalesce(v, d) == IF v.type \in {"undefined", "null"} THEN d ELSE v

\* Strings callers pass.
Descriptions == {"login", "__proto__"}
Selectors == {"#a", "#b"}
Notes == {"", "n1"}
ClickDescriptions == {"the button"}

\* Descriptions that differ only in case or in trailing white space.
ExactDescriptions == {"login", "Login", "login "}

\* Raw property values a caller may put in an argument object: the property
\* left out (undefined), a value of the wrong type, or a value of the right one.
RawString(S) == {Undef, Num("7")} \cup {Str(s) : s \in S}
RawBoolean == {Undef, Num("7"), Bool(TRUE), Bool(FALSE)}

(***************************************************************************)
(* Argument schemas (zod).  A shape is the sequence of its declared keys,  *)
(* in declaration order, each with its primitive type and whether it is    *)
(* .optional().  No key has a .default().                                  *)
(***************************************************************************)
Field(n, t, o) == [name |-> n, type |-> t, optional |-> o]

EnumerateElementsSchema == << Field("includeHidden", "boolean", TRUE) >>

ClickBySelectorSchema ==
  << Field("selector", "string", FALSE), Field("description", "string", TRUE) >>

TeachSelectorSchema ==
  << Field("actionDescription", "string", FALSE),
     Field("selector", "string", FALSE),
     Field("notes", "string", TRUE) >>

GetLearnedSelectorsSchema == << >>

EnhancedSnapshotSchema == << Field("includeElements", "boolean", TRUE) >>

\* An argument object: every key a schema declares is a field of the record,
\* Undef when the caller left it out.
NoParams ==
  [actionDescription |-> Undef, selector |-> Undef, notes |-> Undef,
   description |-> Undef, includeHidden |-> Undef, includeElements |-> Undef]

EnumerateParams == {[NoParams EXCEPT !.includeHidden = h] : h \in RawBoolean}

ClickParams ==
  {[NoParams EXCEPT !.selector = s, !.description = d] :
     s \in RawString(Selectors), d \in RawString(ClickDescriptions)}

TeachParamsOver(D, S, N) ==
  {[NoParams EXCEPT !.actionDescription = d, !.selector = s, !.notes = n] :
     d \in RawString(D), s \in RawString(S), n \in RawString(N)}

TeachParams == TeachParamsOver(Descriptions, Selectors, Notes)

\* The teach calls made while other invocations are in flight.
TeachParamsInFlight == TeachParamsOver({"login"}, Selectors, {"n1"})

\* The teach calls that tell close descriptions apart.
TeachParamsExact == TeachParamsOver(ExactDescriptions, {"#a"}, {})

\* browser_get_learned_selectors declares no key; callers may still send some.
GetLearnedParams == {NoParams, [NoParams EXCEPT !.notes = Num("7")]}

EnhancedParams == {[NoParams EXCEPT !.includeElements = e] : e \in RawBoolean}

\* z.string() / z.boolean(), with .optional(): does the value pass?
Accepts(f, v) == v.type = f.type \/ (f.optional /\ v.type = "undefined")

\* The issue zod reports for a key that does not pass.
Issue(f, v) == [path |-> f.name, expected |-> f.type, received |-> v.type]

\* The bug a validator could have: stop at the first key that fails.
FirstIssueOnly(shape, params) ==
  LET bad == {i \in 1..Len(shape) : ~Accepts(shape[i], params[shape[i].name])}
  IN  IF bad = {} THEN {}
      ELSE LET i == CHOOSE j \in bad : \A k \in bad : j <= k
           IN  {Issue(shape[i], params[shape[i].name])}

\* ZodObject parsing visits every key of the shape and collects one issue per
\* key that fails; it does not stop at the first.
ZodIssues(shape, params) ==
  {Issue(shape[i], params[shape[i].name]) :
     i \in {j \in 1..Len(shape) : ~Accepts(shape[j], params[shape[j].name])}}

\* schema.parse(params): the parsed data (declared keys only, undeclared keys
\* stripped), or a thrown ZodError carrying all the issues.
Parse(shape, params) ==
  LET issues == ZodIssues(shape, params)
      keys == {shape[i].name : i \in 1..Len(shape)}
  IN  [success |-> issues = {},
       issues |-> issues,
       data |-> [k \in DOMAIN NoParams |-> IF k \in keys THEN params[k] ELSE Undef]]

(***************************************************************************)
(* learnedSelectors: a Map<string, {selector, notes?, timestamp}>.  A Map   *)
(* keeps its keys in insertion order; set() on a key it already has        *)
(* replaces the value and leaves the key where it is.  The model keeps the *)
(* entries as a sequence in that order.                                    *)
(***************************************************************************)
MapHas(m, k) == \E i \in 1..Len(m) : m[i].key = k

MapIndex(m, k) == CHOOSE i \in 1..Len(m) : m[i].key = k

MapGet(m, k) == m[MapIndex(m, k)].value

MapKeys(m) == {m[i].key : i \in 1..Len(m)}

\* A put that moves a key it already has to the end (delete, then insert).
MapSetMovesToEnd(m, k, v) ==
  Append(SelectSeq(m, LAMBDA e : e.key # k), [key |-> k, value |-> v])

\* A put that stamps every stored record with the time of this write.
MapSetRestamps(m, k, v) ==
  LET all == [i \in 1..Len(m) |-> [m[i] EXCEPT !.value.timestamp = v.timestamp]]
  IN  IF MapHas(m, k)
        THEN [all EXCEPT ![MapIndex(m, k)].value = v]
        ELSE Append(all, [key |-> k, value |-> v])

\* A put on a store that compares keys after trimming and lower-casing them.
MapSetFolded(m, k, v) ==
  LET fold(x) == IF x \in {"Login", "login "} THEN "login" ELSE x
  IN  IF \E i \in 1..Len(m) : fold(m[i].key) = fold(k)
        THEN [m EXCEPT ![CHOOSE i \in 1..Len(m) : fold(m[i].key) = fold(k)].value = v]
        ELSE Append(m, [key |-> k, value |-> v])

\* A put that keeps the record already stored: first writer wins.
MapSetKeepFirst(m, k, v) ==
  IF MapHas(m, k) THEN m ELSE Append(m, [key |-> k, value |-> v])

\* A put that merges: the old notes survive when the new record has none.
MapSetMerge(m, k, v) ==
  IF MapHas(m, k)
    THEN [m EXCEPT ![MapIndex(m, k)].value =
            [v EXCEPT !.notes = IF v.notes = Undef THEN MapGet(m, k).notes ELSE v.notes]]
    ELSE Append(m, [key |-> k, value |-> v])

\* Map.prototype.set
MapSet(m, k, v) ==
  IF MapHas(m, k)
    THEN [m EXCEPT ![MapIndex(m, k)].value = v]
    ELSE Append(m, [key |-> k, value |-> v])

\* Map.prototype.delete
MapDelete(m, k) == SelectSeq(m, LAMBDA e : e.key # k)

\* The record teachSelector stores: { selector, notes, timestamp: new Date() }.
\* notes is the parsed value, undefined when the caller gave none.
LearnedRecord(data, t) ==
  [selector |-> data.selector.val, notes |-> data.notes, timestamp |-> t]

\* Date.prototype.toISOString: a Date holds whole milliseconds and the ISO
\* string prints them all (the model's clock stays below 10 ms).
toISOString(t) == "1970-01-01T00:00:00.00" \o ToString(t) \o "Z"

\* Date.parse / new Date(iso): the instant an ISO string names.
DateParse(s) == CHOOSE t \in 0..9 : toISOString(t) = s

(***************************************************************************)
(* Content blocks of a tool result: { type: "text", text } or              *)
(* { type: "image", data, mimeType }.                                      *)
(***************************************************************************)
TextBlock(t) == [type |-> "text", text |-> t, data |-> Undef, mimeType |-> ""]
ImageBlock(d) == [type |-> "image", text |-> "", data |-> d, mimeType |-> "image/png"]

RECURSIVE Concat(_)
Concat(parts) == IF parts = << >> THEN "" ELSE Head(parts) \o Concat(Tail(parts))

\* text.includes(sub)
Includes(text, sub) ==
  \E i \in 1..(Len(text) - Len(sub) + 1) : SubSeq(text, i, i + Len(sub) - 1) = sub

\* The backquote of the template literals (written as an apostrophe here).
BQ == "'"

\* The text teachSelector returns starts with a check mark.
CheckMark == "[check]"

\* teachSelector's confirmation line.
TeachText(data) ==
  CheckMark \o " Learned selector for \"" \o data.actionDescription.val \o "\": " \o BQ
    \o data.selector.val \o BQ
    \o (IF Truthy(data.notes) THEN "\n  Notes: " \o data.notes.val ELSE "")

\* One bullet of getLearnedSelectors: the forEach body.
LearnedBullet(e) ==
  "- **" \o e.key \o "**\n"
    \o "  - Selector: " \o BQ \o e.value.selector \o BQ \o "\n"
    \o (IF Truthy(e.value.notes) THEN "  - Notes: " \o e.value.notes.val \o "\n" ELSE "")
    \o "  - Taught: " \o toISOString(e.value.timestamp) \o "\n"

NothingLearned == "No selectors have been taught yet.\n\n"

TeachHint ==
  "Use the " \o BQ \o "browser_teach_selector" \o BQ \o " tool to teach the model which selectors to use for specific actions."

\* A listing that appends the empty-store sentence and the hint to every output.
LearnedTextAlwaysHint(m) ==
  "## Learned CSS Selectors\n\n"
    \o Concat([i \in 1..Len(m) |-> LearnedBullet(m[i])])
    \o NothingLearned \o TeachHint

\* getLearnedSelectors' text for a store.
LearnedText(m) ==
  "## Learned CSS Selectors\n\n"
    \o (IF Len(m) = 0
          THEN NothingLearned \o TeachHint
          ELSE Concat([i \in 1..Len(m) |-> LearnedBullet(m[i])]))

(***************************************************************************)
(* Enumerated elements, as the extension returns them (ElementData), and   *)
(* formatElementText.                                                      *)
(***************************************************************************)
ElementData(tag, text, selector, id, classes, type, role) ==
  [tag |-> tag, text |-> text, selector |-> selector, id |-> id,
   classes |-> classes, type |-> type, role |-> role, ariaLabel |-> Undef]

LoginButton ==
  ElementData(Str("button"), Str("Login"), Str("#a"), Str("login-btn"),
              Undef, Str("submit"), Undef)

\* What await sendSocketMessage("browser_enumerate_elements") may resolve to:
\* an array of elements, null, or an object that is no array.
RawArray(es) == [type |-> "array", elems |-> es]
RawNull == [type |-> "null", elems |-> << >>]
RawObject == [type |-> "object", elems |-> << >>]

EnumerateReplies == {RawArray(<< >>), RawArray(<< LoginButton >>), RawNull, RawObject}

\* Element texts of every length up to MaxTextLen: prefixes of a string of
\* distinct characters, so that a prefix is told from any other part.
Alphabet == "0123456789abcdefghijklmnopqrstuvwxyzABCDEFGHIJKLMNOPQRSTUVWXYZ"

PreviewText(n) == SubSeq(Alphabet, 1, n)

\* Replies with one link whose text has n characters.
PreviewReplies ==
  {RawArray(<< ElementData(Str("a"), Str(PreviewText(n)), Str("#a"), Undef, Undef, Undef, Undef) >>) :
     n \in 0..MaxTextLen}

\* Elements a page may report: a button with an id and a type, an element
\* for which the extension gave neither tag nor text, and a text field with
\* classes, type and role.
NamelessElement == ElementData(Undef, Undef, Str("#b"), Undef, Undef, Undef, Undef)

TextField ==
  ElementData(Str("input"), Undef, Str("#c"), Undef, Str("field wide"), Str("text"),
              Str("textbox"))

ElementPool == {LoginButton, NamelessElement, TextField}

\* Replies of 1..MaxElements elements, in every order, repetitions included.
ListingReplies ==
  {RawArray(es) : es \in UNION {[1..n -> ElementPool] : n \in 1..MaxElements}}

\* Replies with one element that has any subset of the attributes selector,
\* id, classes, type and role.  The reply is cast to ElementData[] without a
\* check, so an element may lack even the selector its type declares.
AttributeReplies ==
  {RawArray(<< ElementData(Str("div"), Undef, selector, id, classes, type, role) >>) :
     selector \in {Undef, Str("#a")}, id \in {Undef, Str("i1")},
     classes \in {Undef, Str("c1 c2")}, type \in {Undef, Str("submit")},
     role \in {Undef, Str("button")}}

\* String(v), as a template literal prints a value.
ToStr(v) ==
  CASE v.type = "undefined" -> "undefined"
    [] v.type = "null" -> "null"
    [] OTHER -> v.val

Min(a, b) == IF a < b THEN a ELSE b

\* A cut one character short.
Substring0Short(s, n) == SubSeq(s, 1, Min(n - 1, Len(s)))

\* s.substring(0, n)
Substring0(s, n) == SubSeq(s, 1, Min(n, Len(s)))

\* The text formatElementText adds for the element at position index (from 0).
ElementText(el, index, includeDetails) ==
  ToString(index + 1) \o ". **" \o (IF Truthy(el.tag) THEN el.tag.val ELSE "element") \o "**"
    \o (IF Truthy(el.text)
          THEN " - \"" \o Substring0(el.text.val, 50)
                 \o (IF Len(el.text.val) > 50 THEN "..." ELSE "") \o "\""
          ELSE "")
    \o (IF includeDetails
          THEN "\n   - CSS Selector: " \o BQ \o ToStr(el.selector) \o BQ
                 \o (IF Truthy(el.id) THEN "\n   - ID: " \o el.id.val ELSE "")
                 \o (IF Truthy(el.classes) THEN "\n   - Classes: " \o el.classes.val ELSE "")
                 \o (IF Truthy(el.type) THEN "\n   - Type: " \o el.type.val ELSE "")
                 \o (IF Truthy(el.role) THEN "\n   - Role: " \o el.role.val ELSE "")
          ELSE " (" \o BQ \o ToStr(el.selector) \o BQ \o ")")
    \o "\n"

\* A listing that numbers from 1 but walks the array from its end.
formatElementTextReversed(elements, includeDetails) ==
  IF Len(elements) = 0
    THEN "No interactive elements found.\n"
    ELSE Concat([i \in 1..Len(elements) |->
                   ElementText(elements[Len(elements) + 1 - i], i - 1, includeDetails)])

formatElementText(elements, includeDetails) ==
  IF Len(elements) = 0
    THEN "No interactive elements found.\n"
    ELSE Concat([i \in 1..Len(elements) |-> ElementText(elements[i], i - 1, includeDetails)])

\* An enumerate text that has the heading alone when there is nothing to list.
EnumerateTextBare(raw) ==
  "## Enumerated Interactive Elements\n\n"
    \o (IF raw.type = "array" /\ Len(raw.elems) > 0
          THEN formatElementText(raw.elems, TRUE)
          ELSE "")

\* The text of enumerateElements for a resolved reply.
EnumerateText(raw) ==
  "## Enumerated Interactive Elements\n\n"
    \o (IF raw.type = "array" /\ Len(raw.elems) > 0
          THEN formatElementText(raw.elems, TRUE)
          ELSE "No interactive elements found or enumeration not supported.\n"
                 \o (IF raw.type \in {"array", "object"}
                       THEN "Note: Received data of type object - extension may need to implement this handler.\n"
                       ELSE ""))

\* The text block enhancedSnapshot appends for a resolved enumeration.
EnhancedElementsText(raw) ==
  "\n## Interactive Elements\n\n"
    \o (IF raw.type = "array" /\ Len(raw.elems) > 0
          THEN formatElementText(raw.elems, FALSE)
          ELSE "No interactive elements found.\n")

\* clickBySelector's confirmation line.
ClickText(data) ==
  "Clicked element with selector: " \o data.selector.val
    \o (IF Truthy(data.description) THEN " (" \o data.description.val \o ")" ELSE "")

(***************************************************************************)
(* The selectors://learned resource.  read() copies the Map into a plain   *)
(* object, data[key] = {...}, and returns JSON.stringify(data, null, 2).   *)
(***************************************************************************)
EmptyObject == [proto |-> "Object.prototype", own |-> << >>]

\* data[key] = value on a plain object, value an object.  The key "__proto__"
\* is the accessor inherited from Object.prototype: the assignment replaces the
\* object's prototype and creates no own property.  Any other key becomes (or
\* overwrites) an own property.
ObjectAssign(obj, key, value) ==
  IF key = "__proto__"
    THEN [obj EXCEPT !.proto = "value"]
    ELSE [obj EXCEPT !.own = MapSet(obj.own, key, value)]

\* An assignment that always defines an own property (Object.defineProperty,
\* or a Map / null-prototype object as the target).
ObjectDefine(obj, key, value) == [obj EXCEPT !.own = MapSet(obj.own, key, value)]

\* The forEach of read(): the store copied entry by entry, in Map order.
RECURSIVE CopyToObject(_, _)
CopyToObject(m, obj) ==
  IF m = << >> THEN obj
  ELSE CopyToObject(Tail(m),
         ObjectAssign(obj, Head(m).key,
           [selector |-> Str(Head(m).value.selector),
            notes |-> Head(m).value.notes,
            timestamp |-> Str(toISOString(Head(m).value.timestamp))]))

\* JSON.stringify of the copy: the own properties in order (the model's keys
\* are no array indices, so that is creation order); within a record, a
\* property whose value is undefined is left out.
JsonStringify(obj) ==
  [i \in 1..Len(obj.own) |->
     [key |-> obj.own[i].key,
      props |-> SelectSeq(<< <<"selector", obj.own[i].value.selector>>,
                             <<"notes", obj.own[i].value.notes>>,
                             <<"timestamp", obj.own[i].value.timestamp>> >>,
                          LAMBDA p : p[2].type # "undefined")]]

\* Reading a property of a parsed record: undefined when the text has none.
JsonProp(props, name) ==
  IF \E i \in 1..Len(props) : props[i][1] = name
    THEN props[CHOOSE i \in 1..Len(props) : props[i][1] = name][2]
    ELSE Undef

\* JSON.parse of the document: description -> {selector, notes, timestamp}.
JsonParse(doc) ==
  [i \in 1..Len(doc) |->
     [key |-> doc[i].key,
      value |-> [selector |-> JsonProp(doc[i].props, "selector"),
                 notes |-> JsonProp(doc[i].props, "notes"),
                 timestamp |-> JsonProp(doc[i].props, "timestamp")]]]

\* The text of the ResourceResult read() returns.
ResourceText(m) == JsonStringify(CopyToObject(m, EmptyObject))

(***************************************************************************)
(* The remote channel.  context.sendSocketMessage(type, payload) sends one *)
(* message and suspends the handler until the reply arrives or the call    *)
(* rejects.                                                                *)
(***************************************************************************)
Faults == {"ChannelUnavailable", "RemoteFault", "ChannelTimeout"}

NoPayload == [includeHidden |-> Undef, selector |-> Undef]

Message(type, payload) == [type |-> type, payload |-> payload]

\* What the screenshot call resolves to, and the content captureAriaSnapshot
\* resolves to.
ScreenshotData == Str("iVBORw0KGgo=")
AriaSnapshot ==
  << TextBlock("- Page URL: https://example.test/\n- Page Title: Example\n"),
     TextBlock("- Page Snapshot\n") >>

\* captureAriaSnapshot(context): one structural-capture round trip.
SnapshotMessage == Message("browser_snapshot", NoPayload)

VARIABLES
  learnedSelectors,   \* the module's Map, entries in insertion order
  now,                \* the last instant new Date() returned
  inflight,           \* bag of the handler activations suspended on an await
  ret,                \* the step just taken: what it returned to its caller, if anything
  view,               \* whether a caller holds what getLearnedSelectorsMap() returned
  lastPut             \* history: per description, the record of the latest set()

vars == << learnedSelectors, now, inflight, ret, view, lastPut >>

NoError == [kind |-> "none", issues |-> {}, command |-> ""]

\* History kept with a result: the settlement of the remote call the step
\* consumed (fault "" when the call resolved), the record a set() replaced, and
\* the value an enumerate call resolved to.
NoEvent == [command |-> "", fault |-> ""]

NoPut == [selector |-> "", notes |-> Undef, timestamp |-> -1]

NoReply == [type |-> "none", elems |-> << >>]

NoRet ==
  [op |-> "none", args |-> NoParams, isError |-> FALSE, error |-> NoError,
   content |-> << >>, sent |-> << >>, data |-> NoParams, json |-> << >>,
   event |-> NoEvent, replaced |-> NoPut, reply |-> NoReply]

\* A handler that resolves with { content }.
Returned(op, data, sent, content) ==
  [NoRet EXCEPT !.op = op, !.args = data, !.data = data, !.sent = sent,
                !.content = content,
                !.event = IF sent = << >> THEN NoEvent
                          ELSE [command |-> sent[Len(sent)].type, fault |-> ""]]

\* A handler that ignores the outcome of validation and returns nothing.
ValidationSwallowed(op, params, issues) == [NoRet EXCEPT !.op = op, !.args = params]

\* parse() threw: the handler rejects with the ZodError before anything else.
ValidationFailed(op, params, issues) ==
  [NoRet EXCEPT !.op = op, !.args = params, !.isError = TRUE,
                !.error = [kind |-> "ValidationError", issues |-> issues, command |-> ""]]

\* A handler that turns a rejected remote call into an empty result.
RemoteCallSwallowed(op, data, sent, fault) ==
  [NoRet EXCEPT !.op = op, !.args = data, !.data = data, !.sent = sent,
                !.event = [command |-> sent[Len(sent)].type, fault |-> fault]]

\* An awaited remote call rejected and nothing caught it: the handler rejects.
RemoteCallFailed(op, data, sent, fault) ==
  [NoRet EXCEPT !.op = op, !.args = data, !.isError = TRUE, !.data = data, !.sent = sent,
                !.error = [kind |-> fault, issues |-> {}, command |-> sent[Len(sent)].type],
                !.event = [command |-> sent[Len(sent)].type, fault |-> fault]]

\* A handler activation suspended on an await: its validated parameters, the
\* messages it has sent, the command it awaits and the locals it holds.
Activation(op, data, sent, screenshot, snapshot) ==
  [op |-> op, data |-> data, sent |-> sent, awaits |-> sent[Len(sent)].type,
   screenshot |-> screenshot, snapshot |-> snapshot]

Suspended == BagToSet(inflight)

CanSuspend == BagCardinality(inflight) < MaxInFlight

Suspend(a) == inflight' = inflight (+) SetToBag({a})

Resume(a, b) == inflight' = (inflight (-) SetToBag({a})) (+) SetToBag({b})

\* A failure that tears down every suspended invocation with the failing one.
FinishAll(a) == inflight' = EmptyBag

Finish(a) == inflight' = inflight (-) SetToBag({a})

\* A handler's result is handed to its caller in the microtasks that follow the
\* handler's last step, before the event loop takes the next request or reply.
Idle == ret.op = "none"

Respond ==
  /\ ~Idle
  /\ ret' = NoRet
  /\ UNCHANGED << learnedSelectors, now, inflight, view, lastPut >>

NoView == [kind |-> "none", copy |-> << >>]

Init ==
  /\ learnedSelectors = << >>
  /\ now = 0
  /\ inflight = EmptyBag
  /\ ret = NoRet
  /\ view = NoView
  /\ lastPut = [d \in Descriptions \cup ExactDescriptions |-> NoPut]

(***************************************************************************)
(* enumerateElements.handle                                                *)
(***************************************************************************)
EnumerateElements(params) ==
  LET p == Parse(EnumerateElementsSchema, params)
  IN  /\ Idle
      /\ IF ~p.success
           THEN /\ ret' = ValidationFailed("enumerate", params, p.issues)
                /\ UNCHANGED inflight
           ELSE /\ CanSuspend
                /\ Suspend(Activation("enumerate", p.data,
                     << Message("browser_enumerate_elements",
                          [NoPayload EXCEPT
                             !.includeHidden = Coalesce(p.data.includeHidden, Bool(FALSE))]) >>,
                     Undef, << >>))
                /\ ret' = NoRet
      /\ UNCHANGED << learnedSelectors, now, view, lastPut >>

\* A handler that sends the command again when the call rejects.
EnumerateSettlesRetries(a, replies) ==
  /\ Idle
  /\ a.op = "enumerate"
  /\ \/ /\ \E raw \in replies :
             ret' = [Returned("enumerate", a.data, a.sent, << TextBlock(EnumerateText(raw)) >>)
                       EXCEPT !.reply = raw]
        /\ Finish(a)
     \/ /\ Resume(a, Activation("enumerate", a.data, Append(a.sent, a.sent[1]), Undef, << >>))
        /\ ret' = NoRet
  /\ UNCHANGED << learnedSelectors, now, view, lastPut >>

\* A handler that takes a reply that is no array of elements for a fault.
EnumerateSettlesStrict(a, replies) ==
  /\ Idle
  /\ a.op = "enumerate"
  /\ \/ \E raw \in replies :
          ret' = IF raw.type = "array" /\ Len(raw.elems) > 0
                   THEN [Returned("enumerate", a.data, a.sent,
                                  << TextBlock(EnumerateText(raw)) >>) EXCEPT !.reply = raw]
                   ELSE [RemoteCallFailed("enumerate", a.data, a.sent, "RemoteFault")
                           EXCEPT !.reply = raw]
     \/ \E f \in Faults : ret' = RemoteCallFailed("enumerate", a.data, a.sent, f)
  /\ Finish(a)
  /\ UNCHANGED << learnedSelectors, now, view, lastPut >>

\* The enumerate call settles: it resolves to one of replies, or it rejects.
EnumerateSettles(a, replies) ==
  /\ Idle
  /\ a.op = "enumerate"
  /\ \/ \E raw \in replies :
          ret' = [Returned("enumerate", a.data, a.sent, << TextBlock(EnumerateText(raw)) >>)
                    EXCEPT !.reply = raw]
     \/ \E f \in Faults : ret' = RemoteCallFailed("enumerate", a.data, a.sent, f)
  /\ Finish(a)
  /\ UNCHANGED << learnedSelectors, now, view, lastPut >>

EnumerateReply(a) == EnumerateSettles(a, EnumerateReplies)

(***************************************************************************)
(* clickBySelector.handle                                                  *)
(***************************************************************************)
\* A click handler that also records the selector it was given as learned.
ClickBySelectorLearns(params) ==
  LET p == Parse(ClickBySelectorSchema, params)
  IN  /\ Idle
      /\ p.success
      /\ CanSuspend
      /\ Suspend(Activation("click", p.data,
            << Message("browser_click_by_selector",
                 [NoPayload EXCEPT !.selector = p.data.selector]) >>, Undef, << >>))
      /\ learnedSelectors' =
            MapSet(learnedSelectors, "login",
                   [selector |-> p.data.selector.val, notes |-> Undef, timestamp |-> now])
      /\ ret' = NoRet
      /\ UNCHANGED << now, view, lastPut >>

\* A click handler that starts the click and the snapshot capture together.
ClickBySelectorBoth(params) ==
  LET p == Parse(ClickBySelectorSchema, params)
  IN  /\ Idle
      /\ IF ~p.success
           THEN /\ ret' = ValidationFailed("click", params, p.issues)
                /\ UNCHANGED inflight
           ELSE /\ CanSuspend
                /\ Suspend(Activation("click", p.data,
                     << Message("browser_click_by_selector",
                          [NoPayload EXCEPT !.selector = p.data.selector]),
                        SnapshotMessage >>,
                     Undef, << >>))
                /\ ret' = NoRet
      /\ UNCHANGED << learnedSelectors, now, view, lastPut >>

ClickBySelector(params) ==
  LET p == Parse(ClickBySelectorSchema, params)
  IN  /\ Idle
      /\ IF ~p.success
           THEN /\ ret' = ValidationFailed("click", params, p.issues)
                /\ UNCHANGED inflight
           ELSE /\ CanSuspend
                /\ Suspend(Activation("click", p.data,
                     << Message("browser_click_by_selector",
                          [NoPayload EXCEPT !.selector = p.data.selector]) >>,
                     Undef, << >>))
                /\ ret' = NoRet
      /\ UNCHANGED << learnedSelectors, now, view, lastPut >>

\* A click whose handler is never resumed when the click call settles.
ClickReplyHangs(a) ==
  /\ Idle
  /\ a.op = "click"
  /\ a.awaits = "browser_click_by_selector"
  /\ UNCHANGED vars

\* The click call settles: on success the handler goes on to captureAriaSnapshot.
ClickReply(a) ==
  /\ Idle
  /\ a.op = "click"
  /\ a.awaits = "browser_click_by_selector"
  /\ \/ /\ Resume(a, Activation("click", a.data, Append(a.sent, SnapshotMessage),
                                Undef, << >>))
        /\ ret' = NoRet
     \/ /\ \E f \in Faults : ret' = RemoteCallFailed("click", a.data, a.sent, f)
        /\ Finish(a)
  /\ UNCHANGED << learnedSelectors, now, view, lastPut >>

\* A click that adds what the store holds to its result.
ClickSnapshotReplyHints(a) ==
  /\ Idle
  /\ a.op = "click"
  /\ a.awaits = "browser_snapshot"
  /\ \/ ret' = Returned("click", a.data, a.sent,
                        << TextBlock(ClickText(a.data)) >> \o AriaSnapshot
                          \o (IF Len(learnedSelectors) = 0 THEN << >>
                              ELSE << TextBlock(LearnedText(learnedSelectors)) >>))
     \/ \E f \in Faults : ret' = RemoteCallFailed("click", a.data, a.sent, f)
  /\ Finish(a)
  /\ UNCHANGED << learnedSelectors, now, view, lastPut >>

ClickSnapshotReply(a) ==
  /\ Idle
  /\ a.op = "click"
  /\ a.awaits = "browser_snapshot"
  /\ \/ ret' = Returned("click", a.data, a.sent,
                        << TextBlock(ClickText(a.data)) >> \o AriaSnapshot)
     \/ \E f \in Faults : ret' = RemoteCallFailed("click", a.data, a.sent, f)
  /\ Finish(a)
  /\ UNCHANGED << learnedSelectors, now, view, lastPut >>

(***************************************************************************)
(* teachSelector.handle: no await, so parse, set and return are one step.  *)
(***************************************************************************)
\* A teach that also tells the extension what it learned.
TeachSelectorNotifies(params) ==
  LET p == Parse(TeachSelectorSchema, params)
  IN  /\ Idle
      /\ IF ~p.success
           THEN /\ ret' = ValidationFailed("teach", params, p.issues)
                /\ UNCHANGED << learnedSelectors, now, lastPut >>
           ELSE \E t \in now..MaxClock :
                  /\ now' = t
                  /\ learnedSelectors' =
                       MapSet(learnedSelectors, p.data.actionDescription.val,
                              LearnedRecord(p.data, t))
                  /\ lastPut' = [lastPut EXCEPT ![p.data.actionDescription.val] =
                                   LearnedRecord(p.data, t)]
                  /\ ret' = [Returned("teach", p.data,
                                      << Message("browser_teach_selector",
                                           [NoPayload EXCEPT !.selector = p.data.selector]) >>,
                                      << TextBlock(TeachText(p.data)) >>)
                               EXCEPT !.args = params]
      /\ UNCHANGED << inflight, view >>

TeachSelector(params) ==
  LET p == Parse(TeachSelectorSchema, params)
  IN  /\ Idle
      /\ IF ~p.success
           THEN /\ ret' = ValidationFailed("teach", params, p.issues)
                /\ UNCHANGED << learnedSelectors, now, lastPut >>
           ELSE \E t \in now..MaxClock :          \* new Date()
                  /\ now' = t
                  /\ learnedSelectors' =
                       MapSet(learnedSelectors, p.data.actionDescription.val,
                              LearnedRecord(p.data, t))
                  /\ lastPut' = [lastPut EXCEPT ![p.data.actionDescription.val] =
                                   LearnedRecord(p.data, t)]
                  /\ ret' = [Returned("teach", p.data, << >>, << TextBlock(TeachText(p.data)) >>)
                               EXCEPT !.args = params,
                                      !.replaced =
                                        IF MapHas(learnedSelectors, p.data.actionDescription.val)
                                          THEN MapGet(learnedSelectors, p.data.actionDescription.val)
                                          ELSE NoPut]
      /\ UNCHANGED << inflight, view >>

(***************************************************************************)
(* getLearnedSelectors.handle: the parameters are never looked at.         *)
(***************************************************************************)
\* A list-learned that parses its arguments like the other tools, against a
\* schema that admits no key.
GetLearnedSelectorsValidates(params) ==
  /\ Idle
  /\ ret' = IF params = NoParams
              THEN [Returned("list", NoParams, << >>,
                             << TextBlock(LearnedText(learnedSelectors)) >>)
                      EXCEPT !.args = params]
              ELSE ValidationFailed("list", params,
                                    {[path |-> "", expected |-> "never", received |-> "object"]})
  /\ UNCHANGED << learnedSelectors, now, inflight, view, lastPut >>

GetLearnedSelectors(params) ==
  /\ Idle
  /\ ret' = [Returned("list", NoParams, << >>,
                      << TextBlock(LearnedText(learnedSelectors)) >>) EXCEPT !.args = params]
  /\ UNCHANGED << learnedSelectors, now, inflight, view, lastPut >>

(***************************************************************************)
(* enhancedSnapshot.handle                                                 *)
(***************************************************************************)
EnhancedSnapshot(params) ==
  LET p == Parse(EnhancedSnapshotSchema, params)
  IN  /\ Idle
      /\ IF ~p.success
           THEN /\ ret' = ValidationFailed("enhanced", params, p.issues)
                /\ UNCHANGED inflight
           ELSE /\ CanSuspend
                /\ Suspend(Activation("enhanced", p.data,
                     << Message("browser_screenshot", NoPayload) >>, Undef, << >>))
                /\ ret' = NoRet
      /\ UNCHANGED << learnedSelectors, now, view, lastPut >>

\* The screenshot call settles: on success the handler goes on to
\* captureAriaSnapshot.
ScreenshotReply(a) ==
  /\ Idle
  /\ a.op = "enhanced"
  /\ a.awaits = "browser_screenshot"
  /\ \/ /\ Resume(a, Activation("enhanced", a.data, Append(a.sent, SnapshotMessage),
                                ScreenshotData, << >>))
        /\ ret' = NoRet
     \/ /\ \E f \in Faults : ret' = RemoteCallFailed("enhanced", a.data, a.sent, f)
        /\ Finish(a)
  /\ UNCHANGED << learnedSelectors, now, view, lastPut >>

\* A content array that has the snapshot blocks before the image.
EnhancedContentImageLast(screenshot, snapshot) == snapshot \o << ImageBlock(screenshot) >>

\* const content = [ {type: "image", data: screenshot, ...}, ...snapshot.content ]
EnhancedContent(screenshot, snapshot) == << ImageBlock(screenshot) >> \o snapshot

\* A capture that asks for the enumeration whatever includeElements says.
EnhancedSnapshotReplyAlways(a) ==
  /\ Idle
  /\ a.op = "enhanced"
  /\ a.awaits = "browser_snapshot"
  /\ \/ /\ Resume(a, Activation("enhanced", a.data,
                    Append(a.sent, Message("browser_enumerate_elements",
                                     [NoPayload EXCEPT !.includeHidden = Bool(FALSE)])),
                    a.screenshot, AriaSnapshot))
        /\ ret' = NoRet
     \/ /\ \E f \in Faults : ret' = RemoteCallFailed("enhanced", a.data, a.sent, f)
        /\ Finish(a)
  /\ UNCHANGED << learnedSelectors, now, view, lastPut >>

\* captureAriaSnapshot settles: content is built, and the enumeration is
\* requested only if includeElements is truthy.
EnhancedSnapshotReply(a) ==
  /\ Idle
  /\ a.op = "enhanced"
  /\ a.awaits = "browser_snapshot"
  /\ \/ /\ Truthy(a.data.includeElements)
        /\ Resume(a, Activation("enhanced", a.data,
                    Append(a.sent, Message("browser_enumerate_elements",
                                     [NoPayload EXCEPT !.includeHidden = Bool(FALSE)])),
                    a.screenshot, AriaSnapshot))
        /\ ret' = NoRet
     \/ /\ ~Truthy(a.data.includeElements)
        /\ ret' = Returned("enhanced", a.data, a.sent,
                           EnhancedContent(a.screenshot, AriaSnapshot))
        /\ Finish(a)
     \/ /\ \E f \in Faults : ret' = RemoteCallFailed("enhanced", a.data, a.sent, f)
        /\ Finish(a)
  /\ UNCHANGED << learnedSelectors, now, view, lastPut >>

\* A catch block that rethrows instead of skipping the enumeration.
EnumerationFailureRethrown(a, f) == RemoteCallFailed("enhanced", a.data, a.sent, f)

\* catch (error) { console.error(...) }: the failure is logged and the handler
\* returns the content built so far.
EnumerationFailureCaught(a, f) ==
  [Returned("enhanced", a.data, a.sent, EnhancedContent(a.screenshot, a.snapshot))
     EXCEPT !.event = [command |-> a.awaits, fault |-> f]]

\* The enumeration inside the try block settles.
EnhancedEnumerateReply(a) ==
  /\ Idle
  /\ a.op = "enhanced"
  /\ a.awaits = "browser_enumerate_elements"
  /\ \/ \E raw \in EnumerateReplies :
          ret' = [Returned("enhanced", a.data, a.sent,
                           Append(EnhancedContent(a.screenshot, a.snapshot),
                                  TextBlock(EnhancedElementsText(raw))))
                    EXCEPT !.reply = raw]
     \/ \E f \in Faults : ret' = EnumerationFailureCaught(a, f)
  /\ Finish(a)
  /\ UNCHANGED << learnedSelectors, now, view, lastPut >>

(***************************************************************************)
(* getLearnedSelectorsMap and the resource's read().                       *)
(***************************************************************************)
\* A getter that hands out a copy of the Map taken at call time.
SnapshotOfMap == [kind |-> "copy", copy |-> learnedSelectors]

\* return learnedSelectors: the caller gets the module's Map object itself.
getLearnedSelectorsMap == [kind |-> "reference", copy |-> << >>]

\* The Map a handed-out value denotes.
Deref(v) == IF v.kind = "reference" THEN learnedSelectors ELSE v.copy

\* createSelectorsResource(getLearnedSelectorsMap).read
ReadResource ==
  /\ Idle
  /\ ret' = [NoRet EXCEPT !.op = "resource",
                          !.json = ResourceText(Deref(getLearnedSelectorsMap))]
  /\ UNCHANGED << learnedSelectors, now, inflight, view, lastPut >>

\* The store side alone: the handlers that never await, and the resource.
NextStore ==
  \/ \E p \in TeachParams : TeachSelector(p)
  \/ \E p \in GetLearnedParams : GetLearnedSelectors(p)
  \/ ReadResource
  \/ Respond

SpecStore == Init /\ [][NextStore]_vars

\* enumerate alone, against pages whose elements have texts of every length.
NextFormat ==
  \/ \E p \in EnumerateParams : EnumerateElements(p)
  \/ \E a \in Suspended : EnumerateSettles(a, PreviewReplies)
  \/ \E a \in Suspended : EnumerateSettles(a, ListingReplies)
  \/ \E a \in Suspended : EnumerateSettles(a, AttributeReplies)
  \/ Respond

SpecFormat == Init /\ [][NextFormat]_vars

\* The store side again, taught descriptions that differ only in case or in
\* trailing white space.
NextExact ==
  \/ \E p \in TeachParamsExact : TeachSelector(p)
  \/ \E p \in GetLearnedParams : GetLearnedSelectors(p)
  \/ ReadResource
  \/ Respond

SpecExact == Init /\ [][NextExact]_vars

\* All five tools and the resource, invocations interleaved at their awaits.
Next ==
  \/ \E p \in EnumerateParams : EnumerateElements(p)
  \/ \E a \in Suspended : EnumerateReply(a)
  \/ \E p \in ClickParams : ClickBySelector(p)
  \/ \E a \in Suspended : ClickReply(a)
  \/ \E a \in Suspended : ClickSnapshotReply(a)
  \/ \E p \in TeachParamsInFlight : TeachSelector(p)
  \/ \E p \in GetLearnedParams : GetLearnedSelectors(p)
  \/ \E p \in EnhancedParams : EnhancedSnapshot(p)
  \/ \E a \in Suspended : ScreenshotReply(a)
  \/ \E a \in Suspended : EnhancedSnapshotReply(a)
  \/ \E a \in Suspended : EnhancedEnumerateReply(a)
  \/ ReadResource
  \/ Respond

Spec == Init /\ [][Next]_vars

(***************************************************************************)
(* Progress.  An invocation in flight is known by its tool and its          *)
(* arguments; the tools are called one at a time per argument object, so    *)
(* that a result can be told to be the one of a given call.  Every remote   *)
(* call is eventually settled by the channel (a reply, or its timeout), and *)
(* a settled promise resumes its handler; a result is always delivered.     *)
(***************************************************************************)
Fresh(op, params) == \A a \in Suspended : ~(a.op = op /\ a.data = params)

\* The steps that resume the invocation of op with arguments data.
Settle(op, data) ==
  \E a \in Suspended :
    /\ a.op = op
    /\ a.data = data
    /\ \/ EnumerateReply(a)
       \/ ClickReply(a)
       \/ ClickSnapshotReply(a)
       \/ ScreenshotReply(a)
       \/ EnhancedSnapshotReply(a)
       \/ EnhancedEnumerateReply(a)

\* The argument objects of the calls followed to their end: for each tool one
\* object its schema accepts per path of its handler, and one it refuses.
LiveEnumerateParams == {[NoParams EXCEPT !.includeHidden = h] : h \in {Undef, Num("7")}}

LiveClickParams == {[NoParams EXCEPT !.selector = s] : s \in {Undef, Str("#a")}}

LiveEnhancedParams ==
  {[NoParams EXCEPT !.includeElements = e] : e \in {Num("7"), Bool(TRUE), Bool(FALSE)}}

LiveTeachParams ==
  {[NoParams EXCEPT !.actionDescription = Str("login"), !.selector = s] : s \in {Undef, Str("#a")}}

\* The tools whose handlers await, with the argument objects they accept.
RemoteCalls ==
  {<< "enumerate", p >> : p \in {q \in LiveEnumerateParams : Parse(EnumerateElementsSchema, q).success}}
    \cup {<< "click", p >> : p \in {q \in LiveClickParams : Parse(ClickBySelectorSchema, q).success}}
    \cup {<< "enhanced", p >> : p \in {q \in LiveEnhancedParams : Parse(EnhancedSnapshotSchema, q).success}}

NextLive ==
  \/ \E p \in LiveEnumerateParams : Fresh("enumerate", p) /\ EnumerateElements(p)
  \/ \E p \in LiveClickParams : Fresh("click", p) /\ ClickBySelector(p)
  \/ \E p \in LiveEnhancedParams : Fresh("enhanced", p) /\ EnhancedSnapshot(p)
  \/ \E p \in LiveTeachParams : TeachSelector(p)
  \/ GetLearnedSelectors(NoParams)
  \/ \E c \in RemoteCalls : Settle(c[1], c[2])
  \/ Respond

SpecLive ==
  /\ Init
  /\ [][NextLive]_vars
  /\ WF_vars(Respond)
  /\ \A c \in RemoteCalls : SF_vars(Settle(c[1], c[2]))

(***************************************************************************)
(* A caller of the exported getter.  Whoever imports getLearnedSelectorsMap *)
(* holds what it returned and may call any Map method on it.               *)
(***************************************************************************)
TakeView ==
  /\ Idle
  /\ view.kind = "none"
  /\ view' = getLearnedSelectorsMap
  /\ ret' = NoRet
  /\ UNCHANGED << learnedSelectors, now, inflight, lastPut >>

\* What a caller may do to the Map it holds: delete a key, clear it, or
\* replace a record's selector.
ViewMutations(m) ==
  {MapDelete(m, k) : k \in MapKeys(m)}
    \cup {<< >>}
    \cup {[m EXCEPT ![i].value.selector = s] : i \in 1..Len(m), s \in Selectors}

CallerMutatesView ==
  /\ Idle
  /\ view.kind # "none"
  /\ \E m \in ViewMutations(Deref(view)) :
       /\ m # Deref(view)
       /\ IF view.kind = "reference"
            THEN learnedSelectors' = m /\ view' = view
            ELSE view' = [view EXCEPT !.copy = m] /\ UNCHANGED learnedSelectors
  /\ ret' = NoRet
  /\ UNCHANGED << now, inflight, lastPut >>

NextView == NextStore \/ TakeView \/ CallerMutatesView

SpecView == Init /\ [][NextView]_vars

(***************************************************************************)
(* Properties.                                                             *)
(***************************************************************************)

\* C1 (SpecStore).  Store overwrite: when a teach of a description that is
\* already stored returns, the store holds exactly one entry under that
\* description, with the target of this teach and exactly its notes
\* (undefined if it gave none); nothing of the replaced record survives.
C1_StoreOverwrite ==
  (ret.op = "teach" /\ ~ret.isError /\ ret.replaced # NoPut) =>
    LET d == ret.args.actionDescription.val
        v == MapGet(learnedSelectors, d)
    IN  /\ Cardinality({i \in 1..Len(learnedSelectors) : learnedSelectors[i].key = d}) = 1
        /\ v.selector = ret.args.selector.val
        /\ v.notes = ret.args.notes

\* A teach with target #b and no notes has just replaced a record with target
\* #a and notes n1, with another description stored as well.
C1_Witness ==
  /\ ret.op = "teach" /\ ~ret.isError
  /\ ret.replaced.selector = "#a" /\ ret.replaced.notes = Str("n1")
  /\ ret.args.selector = Str("#b") /\ ret.args.notes = Undef
  /\ Len(learnedSelectors) = 2

\* C2 (Spec).  Only teach changes the store: a step that is not the return of
\* a teach (a step of enumerate, click, list, enhanced capture or the resource
\* read, succeeding or failing) leaves the Map as it was, and no step at all
\* removes a key.
C2_OnlyTeachChangesStore ==
  [][ /\ (ret'.op # "teach" => learnedSelectors' = learnedSelectors)
      /\ \A k \in MapKeys(learnedSelectors) : MapHas(learnedSelectors', k) ]_vars

\* A click has just failed on a remote fault while the store holds a record.
C2_Witness ==
  /\ ret.op = "click" /\ ret.isError /\ ret.error.kind \in Faults
  /\ Len(learnedSelectors) = 1

\* C3 (SpecView).  The value getLearnedSelectorsMap hands out is not live: no
\* mutation a caller performs on it changes what list-learned or the resource
\* reports.
C3_ViewIsNotLive ==
  [][ CallerMutatesView =>
        /\ LearnedText(learnedSelectors') = LearnedText(learnedSelectors)
        /\ ResourceText(learnedSelectors') = ResourceText(learnedSelectors) ]_vars

\* C4 (Spec).  Partial-failure absorption: an enhanced capture whose
\* enumerate call failed (after the screenshot and the snapshot succeeded)
\* returns a result that is no error and holds the image block followed by the
\* snapshot blocks, and no elements block.
C4_PartialFailureAbsorbed ==
  (/\ ret.op = "enhanced"
   /\ ret.event.command = "browser_enumerate_elements"
   /\ ret.event.fault # "") =>
    /\ ~ret.isError
    /\ Len(ret.content) = 1 + Len(AriaSnapshot)
    /\ ret.content[1] = ImageBlock(ScreenshotData)
    /\ SubSeq(ret.content, 2, Len(ret.content)) = AriaSnapshot
    /\ \A i \in 1..Len(ret.content) :
         ~Includes(ret.content[i].text, "## Interactive Elements")

\* An enhanced capture with includeElements = true has returned after its
\* enumerate call timed out.
C4_Witness ==
  /\ ret.op = "enhanced"
  /\ ret.args.includeElements = Bool(TRUE)
  /\ Len(ret.sent) = 3
  /\ ret.event = [command |-> "browser_enumerate_elements", fault |-> "ChannelTimeout"]
  /\ ~ret.isError

\* C5 (Spec).  Every other remote failure is surfaced: when the remote call a
\* step consumed rejected, and it was not the enumeration of an enhanced
\* capture, the invocation ends in an error carrying that fault, with no content.
C5_RemoteFailuresSurface ==
  (/\ ret.event.fault # ""
   /\ ~(ret.op = "enhanced" /\ ret.event.command = "browser_enumerate_elements")) =>
    /\ ret.isError
    /\ ret.error.kind = ret.event.fault
    /\ ret.content = << >>

\* A click whose snapshot capture faulted (after the click itself succeeded)
\* has ended in an error.
C5_Witness ==
  /\ ret.op = "click"
  /\ ret.event = [command |-> "browser_snapshot", fault |-> "RemoteFault"]
  /\ Len(ret.sent) = 2
  /\ ret.isError

\* An argument object that violates the schema of its tool: a required string
\* missing or no string, an optional key present with the wrong type.
C6_Invalid(op, args) ==
  CASE op = "enumerate" -> args.includeHidden.type \notin {"boolean", "undefined"}
    [] op = "click" -> \/ args.selector.type # "string"
                       \/ args.description.type \notin {"string", "undefined"}
    [] op = "teach" -> \/ args.actionDescription.type # "string"
                       \/ args.selector.type # "string"
                       \/ args.notes.type \notin {"string", "undefined"}
    [] op = "enhanced" -> args.includeElements.type \notin {"boolean", "undefined"}
    [] OTHER -> FALSE

\* C6 (Spec).  A validation failure stops the invocation before any effect:
\* an invocation whose arguments violate its schema returns a ValidationError
\* in the step it is made, has sent no message, suspends nothing and leaves the
\* store unchanged; no suspended activation ever carries invalid arguments.
C6_ValidationStopsBeforeEffect ==
  [][ /\ (ret.op = "none" /\ ret'.op # "none" /\ C6_Invalid(ret'.op, ret'.args)) =>
           /\ ret'.isError
           /\ ret'.error.kind = "ValidationError"
           /\ ret'.sent = << >>
           /\ inflight' = inflight
           /\ learnedSelectors' = learnedSelectors
      /\ \A a \in BagToSet(inflight') : ~C6_Invalid(a.op, a.data) ]_vars

\* A teach without a description has been refused while the store holds a
\* record and a remote call is in flight.
C6_Witness ==
  /\ ret.op = "teach"
  /\ ret.args.actionDescription = Undef
  /\ ret.error.kind = "ValidationError"
  /\ Len(learnedSelectors) = 1
  /\ BagCardinality(inflight) = 1

\* The keys of an argument object that violate the schema of the tool.
C7_ViolatedFields(op, args) ==
  LET required(k) == IF args[k].type # "string" THEN {k} ELSE {}
      optional(k, t) == IF args[k].type \notin {t, "undefined"} THEN {k} ELSE {}
  IN  CASE op = "enumerate" -> optional("includeHidden", "boolean")
        [] op = "click" -> required("selector") \cup optional("description", "string")
        [] op = "teach" -> required("actionDescription") \cup required("selector")
                             \cup optional("notes", "string")
        [] op = "enhanced" -> optional("includeElements", "boolean")
        [] OTHER -> {}

\* C7 (Spec).  Validation completeness: a ValidationError names every key of
\* the argument object that violates the schema, one issue per key, not only
\* the first.
C7_ValidationComplete ==
  ret.error.kind = "ValidationError" =>
    /\ {i.path : i \in ret.error.issues} = C7_ViolatedFields(ret.op, ret.args)
    /\ Cardinality(ret.error.issues) = Cardinality(C7_ViolatedFields(ret.op, ret.args))

\* A teach missing both description and target has been refused with two issues.
C7_Witness ==
  /\ ret.op = "teach"
  /\ ret.args.actionDescription = Undef /\ ret.args.selector = Undef
  /\ ret.error.kind = "ValidationError"
  /\ {i.path : i \in ret.error.issues} = {"actionDescription", "selector"}

\* What the list-learned text shows for a description: its bullet with the
\* target, followed by a notes line or directly by the timestamp line.
C8_ListShowsTarget(text, d, sel) ==
  Includes(text, "- **" \o d \o "**\n  - Selector: " \o BQ \o sel \o BQ \o "\n")

C8_ListShowsNotes(text, d, sel, n) ==
  Includes(text, "- **" \o d \o "**\n  - Selector: " \o BQ \o sel \o BQ \o "\n  - Notes: "
                   \o n \o "\n  - Taught: ")

C8_ListShowsNoNotes(text, d, sel) ==
  Includes(text, "- **" \o d \o "**\n  - Selector: " \o BQ \o sel \o BQ \o "\n  - Taught: ")

\* C8 (SpecStore).  Resource/listing consistency: when list-learned returns,
\* its text and the resource document of the same store both have an entry for
\* every stored description, with the same target, and the same notes or none.
C8_ResourceListingConsistent ==
  ret.op = "list" =>
    LET text == ret.content[1].text
        doc == JsonParse(ResourceText(learnedSelectors))
    IN  \A i \in 1..Len(learnedSelectors) :
          LET d == learnedSelectors[i].key
              sel == learnedSelectors[i].value.selector
          IN  /\ C8_ListShowsTarget(text, d, sel)
              /\ \E j \in 1..Len(doc) :
                   /\ doc[j].key = d
                   /\ doc[j].value.selector = Str(sel)
                   /\ IF doc[j].value.notes = Undef
                        THEN C8_ListShowsNoNotes(text, d, sel)
                        ELSE C8_ListShowsNotes(text, d, sel, doc[j].value.notes.val)

\* C9 (SpecStore).  Round trip: the document a resource read returns, parsed
\* back, maps exactly the stored descriptions, each to its stored target.
C9_RoundTrip ==
  ret.op = "resource" =>
    LET doc == JsonParse(ret.json)
    IN  {<< doc[j].key, doc[j].value.selector.val >> : j \in 1..Len(doc)}
          = {<< learnedSelectors[i].key, learnedSelectors[i].value.selector >> :
               i \in 1..Len(learnedSelectors)}

\* C10 (Spec).  Last writer wins: whatever else is in flight, the record
\* stored under a description is the one of the latest set() for it, in the
\* order the sets ran.
C10_LastWriterWins ==
  \A d \in Descriptions :
    lastPut[d] # NoPut =>
      /\ MapHas(learnedSelectors, d)
      /\ MapGet(learnedSelectors, d) = lastPut[d]

\* A teach has just replaced a record with another target while two other
\* invocations are suspended on their remote calls.
C10_Witness ==
  /\ ret.op = "teach" /\ ~ret.isError
  /\ ret.replaced # NoPut
  /\ ret.replaced.selector # ret.args.selector.val
  /\ BagCardinality(inflight) = 2

\* C11 (Spec).  Fault isolation: a step in which a remote call rejects takes
\* exactly the invocation that awaited it out of the suspended ones and changes
\* nothing else: every other suspended invocation keeps its parameters, the
\* messages it sent and the call it awaits, the store is untouched, and the
\* only result the step produces belongs to the failing invocation.
C11_FaultIsolation ==
  [][ ret'.event.fault # "" =>
        /\ learnedSelectors' = learnedSelectors
        /\ \E a \in BagToSet(inflight) :
             /\ a.op = ret'.op /\ a.data = ret'.data /\ a.sent = ret'.sent
             /\ a.awaits = ret'.event.command
             /\ inflight' = inflight (-) SetToBag({a})
             /\ BagCardinality(inflight') = BagCardinality(inflight) - 1 ]_vars

\* A click has just ended on a timeout of its click call while an enhanced
\* capture stays suspended on its screenshot call and the store holds a record.
C11_Witness ==
  /\ ret.op = "click" /\ ret.isError
  /\ ret.event = [command |-> "browser_click_by_selector", fault |-> "ChannelTimeout"]
  /\ BagCardinality(inflight) = 1
  /\ \E a \in BagToSet(inflight) : a.op = "enhanced" /\ a.awaits = "browser_screenshot"
  /\ Len(learnedSelectors) = 1

\* C12 (Spec).  teach is purely local: a teach with valid arguments returns in
\* the step it is made, whatever is suspended on the channel; it sends no
\* message and suspends nothing, its result is no error and is one text block
\* echoing the target and the notes, and the step performs exactly one write:
\* the taught description holds the given target and notes, and every other
\* entry is as it was.
C12_TeachIsLocal ==
  [][ (ret.op = "none" /\ ret'.op = "teach" /\ ~C6_Invalid("teach", ret'.args)) =>
        LET d == ret'.args.actionDescription.val
        IN  /\ ~ret'.isError
            /\ ret'.sent = << >>
            /\ inflight' = inflight
            /\ Len(ret'.content) = 1
            /\ ret'.content[1].type = "text"
            /\ Includes(ret'.content[1].text, BQ \o ret'.args.selector.val \o BQ)
            /\ (Truthy(ret'.args.notes) =>
                  Includes(ret'.content[1].text, "Notes: " \o ret'.args.notes.val))
            /\ MapKeys(learnedSelectors') = MapKeys(learnedSelectors) \cup {d}
            /\ Len(learnedSelectors') = Cardinality(MapKeys(learnedSelectors'))
            /\ MapGet(learnedSelectors', d).selector = ret'.args.selector.val
            /\ MapGet(learnedSelectors', d).notes = ret'.args.notes
            /\ \A k \in MapKeys(learnedSelectors) \ {d} :
                 MapGet(learnedSelectors', k) = MapGet(learnedSelectors, k) ]_vars

\* A first teach of a description has returned its confirmation while two
\* invocations are suspended on remote calls.
C12_Witness ==
  /\ ret.op = "teach" /\ ~ret.isError
  /\ ret.sent = << >>
  /\ ret.replaced = NoPut
  /\ Len(learnedSelectors) = 1
  /\ BagCardinality(inflight) = 2

\* The messages a click invocation may have sent: the click command with the
\* caller's target, alone or followed by the structural capture.
C13_ClickSequence(data, sent) ==
  LET click == Message("browser_click_by_selector",
                       [NoPayload EXCEPT !.selector = data.selector])
  IN  sent \in {<< click >>, << click, SnapshotMessage >>}

\* C13 (Spec).  click-by-target calls in sequence: a click invocation has sent
\* one click command carrying the caller's target and at most one structural
\* capture after it; it is first suspended with the click command alone, and
\* the capture is added only in a step that consumes the click reply without a
\* fault; a click whose click call failed has sent the click command only and
\* ends in an error with no content.
C13_ClickInSequence ==
  [][ /\ \A b \in BagToSet(inflight') :
           b.op = "click" =>
             /\ C13_ClickSequence(b.data, b.sent)
             /\ b.awaits = b.sent[Len(b.sent)].type
             /\ (CopiesIn(b, inflight') > CopiesIn(b, inflight) =>
                   \/ Len(b.sent) = 1
                   \/ /\ ret'.event.fault = ""
                      /\ \E a \in BagToSet(inflight) :
                           /\ a.op = "click" /\ a.data = b.data
                           /\ a.awaits = "browser_click_by_selector"
                           /\ a.sent = SubSeq(b.sent, 1, 1)
                           /\ inflight' = (inflight (-) SetToBag({a})) (+) SetToBag({b}))
      /\ (ret'.op = "click" /\ ret'.sent # << >>) =>
           /\ C13_ClickSequence(ret'.data, ret'.sent)
           /\ (~ret'.isError => Len(ret'.sent) = 2)
           /\ (ret'.event.command = "browser_click_by_selector" /\ ret'.event.fault # "" =>
                    /\ Len(ret'.sent) = 1
                    /\ ret'.isError
                    /\ ret'.content = << >>) ]_vars

\* A click on #b has ended in an error after its click call found no connected
\* remote: only the click command was sent.
C13_Witness ==
  /\ ret.op = "click" /\ ret.isError
  /\ ret.event = [command |-> "browser_click_by_selector", fault |-> "ChannelUnavailable"]
  /\ ret.args.selector = Str("#b")
  /\ Len(ret.sent) = 1

\* The three calls of an enhanced capture, in order.
C14_Calls ==
  << Message("browser_screenshot", NoPayload),
     SnapshotMessage,
     Message("browser_enumerate_elements", [NoPayload EXCEPT !.includeHidden = Bool(FALSE)]) >>

\* The messages an enhanced capture may have sent: a non-empty prefix of the
\* three calls, the enumerate call only when includeElements is true.
C14_CaptureSequence(data, sent) ==
  /\ Len(sent) \in 1..3
  /\ sent = SubSeq(C14_Calls, 1, Len(sent))
  /\ (Len(sent) = 3 => data.includeElements = Bool(TRUE))

\* C14 (Spec).  enhanced-capture calls in fixed order: an enhanced capture
\* has sent a prefix of visual capture, structural capture, enumerate; it is
\* first suspended with the visual capture alone and each later call is added
\* only in a step that consumes the reply of the call before it without a
\* fault; with includeElements false or omitted no enumerate command is sent
\* and the capture returns after two calls; after a failed visual capture
\* nothing else has been sent.
C14_CaptureInOrder ==
  [][ /\ \A b \in BagToSet(inflight') :
           b.op = "enhanced" =>
             /\ C14_CaptureSequence(b.data, b.sent)
             /\ b.awaits = b.sent[Len(b.sent)].type
             /\ (CopiesIn(b, inflight') > CopiesIn(b, inflight) =>
                   \/ Len(b.sent) = 1
                   \/ /\ ret'.event.fault = ""
                      /\ \E a \in BagToSet(inflight) :
                           /\ a.op = "enhanced" /\ a.data = b.data
                           /\ a.sent = SubSeq(b.sent, 1, Len(b.sent) - 1)
                           /\ a.awaits = a.sent[Len(a.sent)].type
                           /\ inflight' = (inflight (-) SetToBag({a})) (+) SetToBag({b}))
      /\ (ret'.op = "enhanced" /\ ret'.sent # << >>) =>
           /\ C14_CaptureSequence(ret'.data, ret'.sent)
           /\ (~ret'.isError =>
                 Len(ret'.sent) = IF ret'.data.includeElements = Bool(TRUE) THEN 3 ELSE 2)
           /\ (ret'.event.command = "browser_screenshot" /\ ret'.event.fault # "" =>
                 Len(ret'.sent) = 1 /\ ret'.isError) ]_vars

\* An enhanced capture called without includeElements has returned its image
\* and snapshot after two calls, no enumerate command among them.
C14_Witness ==
  /\ ret.op = "enhanced" /\ ~ret.isError
  /\ ret.args.includeElements = Undef
  /\ Len(ret.sent) = 2
  /\ \A i \in 1..Len(ret.sent) : ret.sent[i].type # "browser_enumerate_elements"
  /\ Len(ret.content) = 1 + Len(AriaSnapshot)

\* What an enumerate invocation with parsed arguments data has sent: one
\* enumerate command whose includeHidden is a boolean, the caller's when the
\* caller gave one and false otherwise.
C15_OneEnumerate(data, sent) ==
  /\ Len(sent) = 1
  /\ sent[1].type = "browser_enumerate_elements"
  /\ sent[1].payload.includeHidden \in {Bool(TRUE), Bool(FALSE)}
  /\ sent[1].payload.includeHidden =
       (IF data.includeHidden = Undef THEN Bool(FALSE) ELSE data.includeHidden)

\* C15 (Spec).  enumerate sends exactly one enumerate command per validated
\* invocation, with a boolean includeHidden: the caller's value, or false when
\* the caller left it out, never undefined.  This holds while the invocation
\* is suspended and when it has ended, in a result or in an error.
C15_EnumerateSendsBoolean ==
  /\ \A a \in BagToSet(inflight) : a.op = "enumerate" => C15_OneEnumerate(a.data, a.sent)
  /\ (ret.op = "enumerate" /\ ret.error.kind # "ValidationError") =>
       C15_OneEnumerate(ret.data, ret.sent)

\* An enumerate called without includeHidden has returned; the command it
\* sent carried includeHidden false.
C15_Witness ==
  /\ ret.op = "enumerate" /\ ~ret.isError
  /\ ret.args.includeHidden = Undef
  /\ Len(ret.sent) = 1
  /\ ret.sent[1].payload.includeHidden = Bool(FALSE)

\* No command occurs twice among the messages of one invocation.
C16_SentOnce(sent) ==
  \A i, j \in 1..Len(sent) : sent[i].type = sent[j].type => i = j

\* C16 (Spec).  No internal retry: an invocation never has the same command
\* twice among the messages it sent; a step in which a remote call rejects
\* ends the invocation that awaited it with the messages it had sent before,
\* nothing added, and no invocation stays suspended in its place.  It ends
\* in an error carrying the fault, or, when the call was the enumeration of an
\* enhanced capture, in the non-error partial result.
C16_NoRetry ==
  [][ /\ \A b \in BagToSet(inflight') : C16_SentOnce(b.sent)
      /\ C16_SentOnce(ret'.sent)
      /\ ret.op = "none" =>
           \A a \in BagToSet(inflight) :
             (CopiesIn(a, inflight') < CopiesIn(a, inflight)) =>
               \/ /\ ret'.op = "none"       \* the call resolved, the next one is awaited
                  /\ \E b \in BagToSet(inflight') :
                       /\ b.op = a.op /\ Len(b.sent) = Len(a.sent) + 1
                       /\ SubSeq(b.sent, 1, Len(a.sent)) = a.sent
               \/ /\ ret'.op = a.op /\ ret'.sent = a.sent
                  /\ inflight' = inflight (-) SetToBag({a})
                  /\ (ret'.event.fault # "" =>
                        IF a.op = "enhanced" /\ a.awaits = "browser_enumerate_elements"
                          THEN ~ret'.isError
                          ELSE ret'.isError /\ ret'.error.kind = ret'.event.fault) ]_vars

\* An enumerate has ended in an error after its one command met a remote
\* fault.
C16_Witness ==
  /\ ret.op = "enumerate" /\ ret.isError
  /\ ret.event = [command |-> "browser_enumerate_elements", fault |-> "RemoteFault"]
  /\ Len(ret.sent) = 1
  /\ ret.error.kind = "RemoteFault"

\* The descriptions passed to the teach calls that succeeded so far.
C17_Taught(puts) == {d \in DOMAIN puts : puts[d] # NoPut}

\* C17 (SpecExact).  learnedSelectors.size is the number of distinct
\* description strings taught so far, the strings compared exactly ("Login",
\* "login" and "login " are three entries), and it never decreases.
C17_SizeCountsDescriptions ==
  [][ /\ Len(learnedSelectors) = Cardinality(C17_Taught(lastPut))
      /\ Len(learnedSelectors') = Cardinality(C17_Taught(lastPut'))
      /\ MapKeys(learnedSelectors') = C17_Taught(lastPut')
      /\ Len(learnedSelectors') >= Len(learnedSelectors) ]_vars

\* "login", "Login" and "login " have been taught, the last just now: the
\* store holds three entries.
C17_Witness ==
  /\ ret.op = "teach" /\ ~ret.isError
  /\ ret.args.actionDescription = Str("login ")
  /\ MapKeys(learnedSelectors) = {"login", "Login", "login "}
  /\ Len(learnedSelectors) = 3

\* The timestamp list-learned prints for a stored description: the ISO string
\* (24 characters) that ends the last line of its bullet.
C18_ListedAt(m, d) ==
  LET b == LearnedBullet(m[MapIndex(m, d)])
  IN  SubSeq(b, Len(b) - 24, Len(b) - 1)

\* The timestamp the resource document gives for a description, undefined
\* when the document has no entry for it.
C18_ResourceAt(m, d) ==
  LET doc == JsonParse(ResourceText(m))
  IN  IF \E j \in 1..Len(doc) : doc[j].key = d
        THEN doc[CHOOSE j \in 1..Len(doc) : doc[j].key = d].value.timestamp
        ELSE Undef

\* C18 (SpecStore).  recordedAt is immutable: for every stored description, a
\* step that is not a successful teach of that same description leaves the
\* description stored, and the timestamp that list-learned and the resource
\* document report for it is the same after the step as before.
C18_RecordedAtImmutable ==
  [][ \A d \in MapKeys(learnedSelectors) :
        ~(ret'.op = "teach" /\ ~ret'.isError /\ ret'.args.actionDescription = Str(d)) =>
          /\ MapHas(learnedSelectors', d)
          /\ C18_ListedAt(learnedSelectors', d) = C18_ListedAt(learnedSelectors, d)
          /\ C18_ResourceAt(learnedSelectors', d) = C18_ResourceAt(learnedSelectors, d) ]_vars

\* "login" was taught at instant 0 and another description has just been
\* taught at instant 1: the listing still reports instant 0 for "login".
C18_Witness ==
  /\ ret.op = "teach" /\ ~ret.isError
  /\ ret.args.actionDescription = Str("__proto__")
  /\ Len(learnedSelectors) = 2
  /\ learnedSelectors[1].key = "login"
  /\ learnedSelectors[2].value.timestamp = 1
  /\ C18_ListedAt(learnedSelectors, "login") = toISOString(0)

\* The number of bullets in a listing: the lines that start with "- **".
C19_Bullets(text) ==
  Cardinality({i \in 1..Len(text) : i + 4 <= Len(text) /\ SubSeq(text, i, i + 4) = "\n- **"})

\* The listing has the bullet of a record: description, target, the notes line
\* only if the record has notes, and the ISO timestamp, in this order.
C19_HasBullet(text, d, v) ==
  LET head == "- **" \o d \o "**\n  - Selector: " \o BQ \o v.selector \o BQ \o "\n"
      taught == "  - Taught: " \o toISOString(v.timestamp) \o "\n"
      plain == Includes(text, head \o taught)
      noted == /\ v.notes # Undef
               /\ Includes(text, head \o "  - Notes: " \o v.notes.val \o "\n" \o taught)
  IN  CASE v.notes = Undef -> plain
        [] v.notes = Str("") -> plain \/ noted
        [] OTHER -> noted

\* C19 (SpecStore).  Mapping listing shape: list-learned prints the "nothing
\* taught yet" sentence and the hint naming the teach tool exactly when the
\* store is empty; otherwise it prints one bullet per stored record and no
\* more, each with the description, the target, the notes only if the record
\* has notes, and the record's timestamp.
C19_ListingShape ==
  ret.op = "list" =>
    LET text == ret.content[1].text
    IN  /\ Includes(text, "No selectors have been taught yet.") <=> Len(learnedSelectors) = 0
        /\ Includes(text, "browser_teach_selector") <=> Len(learnedSelectors) = 0
        /\ C19_Bullets(text) = Len(learnedSelectors)
        /\ \A i \in 1..Len(learnedSelectors) :
             C19_HasBullet(text, learnedSelectors[i].key, learnedSelectors[i].value)

\* list-learned has returned for a store of two records, the first with notes
\* and the second without.
C19_Witness ==
  /\ ret.op = "list"
  /\ Len(learnedSelectors) = 2
  /\ learnedSelectors[1].value.notes = Str("n1")
  /\ learnedSelectors[2].value.notes = Undef
  /\ C19_Bullets(ret.content[1].text) = 2

\* Reading a listing.  Where entry number k starts: the line that begins
\* "k. **".
ListingEntryAt(text, k) ==
  LET line == "\n" \o ToString(k) \o ". **"
  IN  CHOOSE i \in 1..Len(text) :
        i + Len(line) - 1 <= Len(text) /\ SubSeq(text, i, i + Len(line) - 1) = line

ListingHasEntry(text, k) == Includes(text, "\n" \o ToString(k) \o ". **")

\* The text of entry k of a listing of n entries: from its number to the next
\* entry, or to the end of the listing.
ListingEntry(text, k, n) ==
  SubSeq(text, ListingEntryAt(text, k) + 1,
         IF k < n THEN ListingEntryAt(text, k + 1) ELSE Len(text))

C21_EmptyListHasSentence ==
  (ret.op \in {"enumerate", "enhanced"} /\ ret.reply = RawArray(<< >>)) =>
    LET block == ret.content[Len(ret.content)]
    IN  /\ ~ret.isError
        /\ block.type = "text"
        /\ Includes(block.text, "No interactive elements found")
        /\ (ret.op = "enhanced" =>
              /\ Len(ret.content) = 2 + Len(AriaSnapshot)
              /\ Includes(block.text, "## Interactive Elements\n\nNo interactive elements found.\n"))

\* An enhanced capture with includeElements = true has returned after the page
\* reported zero elements: its last block is the elements block.
C21_Witness ==
  /\ ret.op = "enhanced" /\ ~ret.isError
  /\ ret.args.includeElements = Bool(TRUE)
  /\ ret.reply = RawArray(<< >>)
  /\ Len(ret.content) = 2 + Len(AriaSnapshot)

\* The resource document has the whole record v under description d.
C23_DocHasRecord(doc, d, v) ==
  \E j \in 1..Len(doc) :
    /\ doc[j].key = d
    /\ doc[j].value.selector = Str(v.selector)
    /\ doc[j].value.notes = v.notes
    /\ doc[j].value.timestamp = Str(toISOString(v.timestamp))

\* The listing part of C23: list-learned shows, for every description taught
\* so far, the whole record of its latest put.
C23_ListSeesWholeRecords ==
  ret.op = "list" =>
    \A d \in C17_Taught(lastPut) : C19_HasBullet(ret.content[1].text, d, lastPut[d])

\* C23 (SpecStore).  Store mutation never straddles a suspension point: a
\* list-learned or a resource read shows, for every description whose put ran
\* before the read, the whole record of its latest put (target, notes and
\* timestamp of one and the same teach), never a mix and never nothing.
C23_ReadsSeeWholeRecords ==
  /\ C23_ListSeesWholeRecords
  /\ ret.op = "resource" =>
       \A d \in C17_Taught(lastPut) : C23_DocHasRecord(JsonParse(ret.json), d, lastPut[d])

\* The content a remote operation returns, from its parsed arguments, the
\* settlement of its last remote call and the value its enumerate call
\* resolved to, and from nothing else.
C24_Content(op, data, event, reply) ==
  CASE event.fault # "" /\ ~(op = "enhanced" /\ event.command = "browser_enumerate_elements")
         -> << >>
    [] op = "enumerate" -> << TextBlock(EnumerateText(reply)) >>
    [] op = "click" -> << TextBlock(ClickText(data)) >> \o AriaSnapshot
    [] op = "enhanced" ->
         << ImageBlock(ScreenshotData) >> \o AriaSnapshot
           \o (IF reply = NoReply THEN << >> ELSE << TextBlock(EnhancedElementsText(reply)) >>)
    [] OTHER -> << >>

\* C24 (Spec).  No hidden cross-invocation state: the outcome of an
\* enumerate, a click or an enhanced capture is determined by its arguments
\* and the settlements of its remote calls: whatever the store holds, whatever
\* ran before and whatever else is suspended, the content is the one computed
\* from those alone, and it is an error exactly when validation failed or a
\* call outside the capture's enumeration rejected.
C24_NoHiddenState ==
  ret.op \in {"enumerate", "click", "enhanced"} =>
    IF C6_Invalid(ret.op, ret.args)
      THEN /\ ret.isError
           /\ ret.content = << >>
           /\ {i.path : i \in ret.error.issues} = C7_ViolatedFields(ret.op, ret.args)
      ELSE /\ ret.content = C24_Content(ret.op, ret.args, ret.event, ret.reply)
           /\ ret.isError <=>
                (/\ ret.event.fault # ""
                 /\ ~(ret.op = "enhanced" /\ ret.event.command = "browser_enumerate_elements"))

\* A click has returned its confirmation and snapshot while the store holds a
\* taught record and another invocation is suspended.
C24_Witness ==
  /\ ret.op = "click" /\ ~ret.isError
  /\ Len(ret.content) = 1 + Len(AriaSnapshot)
  /\ Len(learnedSelectors) = 1
  /\ BagCardinality(inflight) = 1

\* The descriptions of a store, in the order the Map holds them.
C25_Order(m) == [i \in 1..Len(m) |-> m[i].key]

\* Where the bullet of a description starts in a listing.
C25_BulletAt(text, d) ==
  LET line == "\n- **" \o d \o "**\n"
  IN  CHOOSE i \in 1..Len(text) :
        i + Len(line) - 1 <= Len(text) /\ SubSeq(text, i, i + Len(line) - 1) = line

\* C25 (SpecStore).  Mapping order is insertion order: a successful teach of a
\* description that is not stored yet puts it after all the others; a teach
\* of a stored description leaves every description where it is and replaces
\* the record; no other step changes the order; and list-learned prints the
\* bullets in that order.
C25_InsertionOrder ==
  [][ /\ IF ret'.op = "teach" /\ ~ret'.isError
           THEN LET d == ret'.args.actionDescription.val
                IN  /\ C25_Order(learnedSelectors') =
                         (IF MapHas(learnedSelectors, d)
                            THEN C25_Order(learnedSelectors)
                            ELSE Append(C25_Order(learnedSelectors), d))
                    /\ MapGet(learnedSelectors', d).selector = ret'.args.selector.val
           ELSE C25_Order(learnedSelectors') = C25_Order(learnedSelectors)
      /\ ret'.op = "list" =>
           \A i \in 1..(Len(learnedSelectors') - 1) :
             C25_BulletAt(ret'.content[1].text, learnedSelectors'[i].key)
               < C25_BulletAt(ret'.content[1].text, learnedSelectors'[i + 1].key) ]_vars

\* The description taught first has just been taught again with another
\* target, after a second description: it is still the first entry.
C25_Witness ==
  /\ ret.op = "teach" /\ ~ret.isError
  /\ ret.replaced # NoPut
  /\ ret.replaced.selector # ret.args.selector.val
  /\ Len(learnedSelectors) = 2
  /\ learnedSelectors[1].key = ret.args.actionDescription.val

\* C26 (SpecFormat).  Entity listing order and numbering: when enumerate
\* returns the listing of a reply of n >= 1 elements, the listing has the
\* entries numbered 1..n and no other, entry i is the one of the i-th element
\* of the reply (its tag, or "element" when it has none, and its selector when
\* it has one),
\* and the entries stand in the order of their numbers.
C26_ListingNumbered ==
  (ret.op = "enumerate" /\ ret.reply.type = "array" /\ Len(ret.reply.elems) >= 1) =>
    LET text == ret.content[1].text
        n == Len(ret.reply.elems)
    IN  /\ \A k \in 0..(MaxElements + 1) : ListingHasEntry(text, k) <=> k \in 1..n
        /\ \A i \in 1..(n - 1) : ListingEntryAt(text, i) < ListingEntryAt(text, i + 1)
        /\ \A i \in 1..n :
             LET el == ret.reply.elems[i]
                 kind == IF el.tag.type = "string" /\ el.tag.val # "" THEN el.tag.val
                         ELSE "element"
                 head == ToString(i) \o ". **" \o kind \o "**"
                 entry == ListingEntry(text, i, n)
             IN  /\ SubSeq(entry, 1, Len(head)) = head
                 /\ (el.selector # Undef =>
                       Includes(entry, "CSS Selector: " \o BQ \o el.selector.val \o BQ \o "\n"))

\* enumerate has returned the listing of three elements, two of them the same
\* button and the one between them without a tag: entry 2 reads "element".
C26_Witness ==
  /\ ret.op = "enumerate" /\ ~ret.isError
  /\ ret.reply = RawArray(<< LoginButton, NamelessElement, LoginButton >>)
  /\ Includes(ret.content[1].text, "\n2. **element**")

\* The sub-lines of the attributes an element has, in the order selector, id,
\* classes, type, role; an attribute it lacks gives no line.
C27_SubLines(el) ==
  LET line(label, v) == IF v = Undef THEN "" ELSE "\n   - " \o label \o ": " \o v.val
  IN  (IF el.selector = Undef THEN ""
       ELSE "\n   - CSS Selector: " \o BQ \o el.selector.val \o BQ)
        \o line("ID", el.id) \o line("Classes", el.classes)
        \o line("Type", el.type) \o line("Role", el.role)

\* The number of sub-lines in an entry.
C27_SubLineCount(entry) ==
  Cardinality({i \in 1..Len(entry) :
                 i + 5 <= Len(entry) /\ SubSeq(entry, i, i + 5) = "\n   - "})

\* C27 (SpecFormat).  Detailed entity rendering: in the listing enumerate
\* returns, the entry of every element ends with one sub-line per attribute
\* the element has, in the order selector, id, classes, type, role, and has no
\* other sub-line: an attribute the element lacks, the selector included,
\* gives no line and no placeholder.
C27_DetailedRendering ==
  (ret.op = "enumerate" /\ ret.reply.type = "array" /\ Len(ret.reply.elems) >= 1) =>
    \A i \in 1..Len(ret.reply.elems) :
      LET el == ret.reply.elems[i]
          entry == ListingEntry(ret.content[1].text, i, Len(ret.reply.elems))
          tail == C27_SubLines(el) \o "\n"
          present == Cardinality({v \in {<< "selector", el.selector >>, << "id", el.id >>,
                                         << "classes", el.classes >>, << "type", el.type >>,
                                         << "role", el.role >>} : v[2] # Undef})
      IN  /\ Len(entry) >= Len(tail)
          /\ SubSeq(entry, Len(entry) - Len(tail) + 1, Len(entry)) = tail
          /\ C27_SubLineCount(entry) = present
          /\ ~Includes(entry, "undefined")

\* The blocks of a content array that are elements blocks.
C28_ElementsBlocks(content) ==
  {i \in 1..Len(content) :
     content[i].type = "text" /\ Includes(content[i].text, "## Interactive Elements")}

\* C28 (Spec).  enhanced-capture block order: a successful enhanced capture
\* returns the image block first, then the blocks of the structural capture
\* in the order the capture returned them, then at most one elements block,
\* which is the last block; the elements block is there exactly when the
\* enumerate call was made and resolved.
C28_BlockOrder ==
  (ret.op = "enhanced" /\ ~ret.isError) =>
    LET n == Len(AriaSnapshot)
    IN  /\ Len(ret.content) \in {1 + n, 2 + n}
        /\ ret.content[1].type = "image"
        /\ ret.content[1].data = ScreenshotData
        /\ \A i \in 1..n : ret.content[1 + i] = AriaSnapshot[i]
        /\ C28_ElementsBlocks(ret.content) \subseteq {2 + n}
        /\ Len(ret.content) = 2 + n <=>
             (Len(ret.sent) = 3 /\ ret.event.fault = "")
        /\ Len(ret.content) = 2 + n => C28_ElementsBlocks(ret.content) = {2 + n}

\* An enhanced capture with includeElements = true has returned the image,
\* the snapshot blocks and the listing of one element.
C28_Witness ==
  /\ ret.op = "enhanced" /\ ~ret.isError
  /\ ret.reply = RawArray(<< LoginButton >>)
  /\ Len(ret.content) = 2 + Len(AriaSnapshot)
  /\ ret.content[1].type = "image"
  /\ C28_ElementsBlocks(ret.content) = {Len(ret.content)}

\* C29 (Spec).  In enumerate a reply that is not a non-empty array (an empty
\* array, null, an object that is no array) is an empty enumeration, not a
\* fault: the invocation returns a result that is no error, one text block
\* holding the sentence "No interactive elements found".
C29_OddReplyIsEmptyEnumeration ==
  (ret.op = "enumerate" /\ ret.reply \in {RawArray(<< >>), RawNull, RawObject}) =>
    /\ ~ret.isError
    /\ ret.error = NoError
    /\ Len(ret.content) = 1
    /\ ret.content[1].type = "text"
    /\ Includes(ret.content[1].text, "No interactive elements found")

\* enumerate has returned after its call resolved to null.
C29_Witness ==
  /\ ret.op = "enumerate" /\ ~ret.isError
  /\ ret.reply = RawNull
  /\ ret.event = [command |-> "browser_enumerate_elements", fault |-> ""]

\* C30 (Spec).  list-learned has no validation path: whatever argument object
\* it is given, and whatever is suspended, it returns in the step it is
\* called, sends nothing, suspends nothing, leaves the store as it is and
\* returns, as a result that is no error, the listing of the current store.
C30_ListNeverFails ==
  [][ (ret.op = "none" /\ ret'.op = "list") =>
        /\ ~ret'.isError
        /\ ret'.error = NoError
        /\ ret'.sent = << >>
        /\ inflight' = inflight
        /\ learnedSelectors' = learnedSelectors
        /\ Len(ret'.content) = 1
        /\ ret'.content[1].type = "text"
        /\ Includes(ret'.content[1].text, "## Learned CSS Selectors")
        /\ C19_Bullets(ret'.content[1].text) = Len(learnedSelectors)
        /\ \A i \in 1..Len(learnedSelectors) :
             C19_HasBullet(ret'.content[1].text, learnedSelectors[i].key,
                           learnedSelectors[i].value) ]_vars

\* list-learned, called with a number where no key is declared, has returned
\* the listing of a store of one record while a remote call is pending.
C30_Witness ==
  /\ ret.op = "list" /\ ~ret.isError
  /\ ret.args.notes = Num("7")
  /\ Len(learnedSelectors) = 1
  /\ BagCardinality(inflight) = 1

\* C22 (SpecLive).  Every invocation ends in exactly one outcome: an
\* invocation suspended on a remote call eventually returns, a result or an
\* error; the step in which it returns takes it out of the suspended ones, so
\* it returns once; and an invocation of teach or list-learned, or one whose
\* arguments are refused, returns in the step it is made.
C22_EveryInvocationReturns ==
  /\ \A c \in RemoteCalls :
       (\E a \in Suspended : a.op = c[1] /\ a.data = c[2])
         ~> (ret.op = c[1] /\ ret.data = c[2])
  /\ [][ (ret.op = "none" /\ ret'.op \in {"enumerate", "click", "enhanced"}
             /\ ret'.error.kind # "ValidationError") =>
            /\ \E a \in Suspended :
                 /\ a.op = ret'.op /\ a.data = ret'.data
                 /\ inflight' = inflight (-) SetToBag({a})
            /\ \A b \in BagToSet(inflight') : ~(b.op = ret'.op /\ b.data = ret'.data) ]_vars
  /\ [][ \A b \in BagToSet(inflight') : b.op \in {"enumerate", "click", "enhanced"} ]_vars

\* An enhanced capture with includeElements = true has returned after all
\* three of its calls, while a click is still suspended.
C22_Witness ==
  /\ ret.op = "enhanced" /\ ~ret.isError
  /\ Len(ret.sent) = 3
  /\ ret.event.fault = ""
  /\ \E a \in BagToSet(inflight) : a.op = "click"

====
